---- MODULE Spec2Model ----
(***************************************************************************)
(* Maze generator (mazegeneration.py) and the three stepwise solvers       *)
(* (try1.py: BFSSolver, DFSSolver, AStarSolver) driven by MazeViewer.      *)
(* Positions are <<x, y>> = <<column, row>>, origin top-left.  A grid is a *)
(* function from positions to one-character tile strings.                  *)
(***************************************************************************)
EXTENDS Integers, Sequences, FiniteSets, TLC

\* ------------------------------------------------------------------ bounds
\* generate_maze is called with every width and height in GenDims whose product
\* is at most MaxArea (below 3 the generator raises).
MaxArea == 24
GenDims == 0 .. MaxArea
\* Loaded mazes: every rectangular grid of at most MaxCells cells.
MaxCells == 6
\* generate_maze is called twice on dimensions whose product is at most TwiceArea.
TwiceArea == 15
\* Mazes on which update() is followed statement by statement: every
\* rectangular grid of at most StepCells cells.
StepCells == 4
\* next() calls a caller of solve() makes on a generator that has already
\* ended, per solver.
MaxAfter == 2

\* ------------------------------------------------------------------ tiles
WALL == "#"
PATH == " "
START == "S"
END == "E"
TELEPORT == "T"
PENALTY == "P"

NoCell == <<-1, -1>>

Positions(w, h) == (0 .. w - 1) \X (0 .. h - 1)

\* Row-major enumeration (for y in range(height) for x in range(width)).
RowMajor(w, h) == [i \in 1 .. w * h |-> <<(i - 1) % w, (i - 1) \div w>>]

\* Subsequence of s whose elements satisfy Test, order kept.
RECURSIVE FilterSeq(_, _)
FilterSeq(s, keep) ==
  IF s = << >> THEN << >>
  ELSE IF Head(s) \in keep THEN <<Head(s)>> \o FilterSeq(Tail(s), keep)
       ELSE FilterSeq(Tail(s), keep)

\* list.remove(x): drops the first occurrence.
RECURSIVE RemoveFirst(_, _)
RemoveFirst(s, x) ==
  IF s = << >> THEN << >>
  ELSE IF Head(s) = x THEN Tail(s) ELSE <<Head(s)>> \o RemoveFirst(Tail(s), x)

\* list.pop(i) with a 1-based index: the list without its i-th element.
RemoveAt(s, i) == SubSeq(s, 1, i - 1) \o SubSeq(s, i + 1, Len(s))

Range(s) == {s[i] : i \in 1 .. Len(s)}

Max2(a, b) == IF a >= b THEN a ELSE b

\* ------------------------------------------------------------------ generator helpers
\* The direction list of generate_maze.
GenDirs == << <<0, 1>>, <<0, -1>>, <<1, 0>>, <<-1, 0>> >>

GenNbr(p, i) == <<p[1] + GenDirs[i][1], p[2] + GenDirs[i][2]>>

InGrid(p, w, h) == 0 <= p[1] /\ p[1] < w /\ 0 <= p[2] /\ p[2] < h

Interior(p, w, h) == 0 < p[1] /\ p[1] < w - 1 /\ 0 < p[2] /\ p[2] < h - 1

\* Walls pushed around a carved cell: interior neighbours, in direction order,
\* that pass the tile test (all of them for the first cell, '#' ones later).
NewWalls(g, p, w, h, onlyWalls) ==
  LET ok(i) == /\ Interior(GenNbr(p, i), w, h)
               /\ (onlyWalls => g[GenNbr(p, i)] = WALL)
      RECURSIVE build(_)
      build(i) == IF i > 4 THEN << >>
                  ELSE (IF ok(i) THEN << <<GenNbr(p, i)[1], GenNbr(p, i)[2], p[1], p[2]>> >>
                        ELSE << >>) \o build(i + 1)
  IN build(1)

\* The count cut off at one: a wall with any ' ' neighbour passes `connected == 1`
\* (the test written as `connected >= 1`).
Connected_AnyAsOne(g, p, w, h) ==
  IF \E i \in 1 .. 4 : InGrid(GenNbr(p, i), w, h) /\ g[GenNbr(p, i)] = PATH THEN 1 ELSE 0

\* Number of the four neighbours that are already ' '.
Connected(g, p, w, h) ==
  Cardinality({i \in 1 .. 4 : InGrid(GenNbr(p, i), w, h) /\ g[GenNbr(p, i)] = PATH})

\* Cells of the grid holding ' ', row-major.
EmptyCells(g, w, h) == FilterSeq(RowMajor(w, h), {p \in Positions(w, h) : g[p] = PATH})

Walkable == {PATH, PENALTY, TELEPORT}

\* The flood fill of lines 49-60: the set of cells popped from the stack.
RECURSIVE FloodFill(_, _, _, _, _)
FloodFill(g, w, h, stack, seen) ==
  IF stack = << >> THEN seen
  ELSE LET p == stack[Len(stack)]
           rest == SubSeq(stack, 1, Len(stack) - 1)
           nb == [i \in 1 .. 4 |-> GenNbr(p, i)]
           push == FilterSeq(nb, {q \in Positions(w, h) : g[q] \in Walkable})
       IN IF p \in seen THEN FloodFill(g, w, h, rest, seen)
          ELSE FloodFill(g, w, h, rest \o push, seen \cup {p})

\* The distance pass of lines 74-87: the dict `distances` as the sequence of
\* <<cell, dist>> in insertion order.
RECURSIVE Distances(_, _, _, _, _)
Distances(g, w, h, queue, done) ==
  IF queue = << >> THEN done
  ELSE LET p == Head(queue)[1]
           d == Head(queue)[2]
           nb == [i \in 1 .. 4 |-> GenNbr(p, i)]
           push == FilterSeq(nb, {q \in Positions(w, h) : g[q] \in Walkable})
       IN IF p \in {done[i][1] : i \in 1 .. Len(done)}
          THEN Distances(g, w, h, Tail(queue), done)
          ELSE Distances(g, w, h,
                         Tail(queue) \o [i \in 1 .. Len(push) |-> <<push[i], d + 1>>],
                         Append(done, <<p, d>>))

\* max(distances.keys(), key=...): the first key, in insertion order, of largest value.
Farthest(dist) ==
  LET best == CHOOSE i \in 1 .. Len(dist) :
                /\ \A j \in 1 .. Len(dist) : dist[j][2] <= dist[i][2]
                /\ \A j \in 1 .. i - 1 : dist[j][2] < dist[i][2]
  IN dist[best][1]

\* ------------------------------------------------------------------ solver helpers
\* MazeSolver.get_neighbors: its direction list, applied to (x, y).
SolverDirs == << <<-1, 0>>, <<1, 0>>, <<0, -1>>, <<0, 1>> >>

\* Last cell, row-major, holding tile t (initialize_maze keeps the last match).
LastOf(g, w, h, t) ==
  LET hits == FilterSeq(RowMajor(w, h), {p \in Positions(w, h) : g[p] = t})
  IN IF hits = << >> THEN NoCell ELSE hits[Len(hits)]

GetNeighbors(g, w, h, cell) ==
  LET nb == [i \in 1 .. 4 |-> <<cell[1] + SolverDirs[i][1], cell[2] + SolverDirs[i][2]>>]
  IN FilterSeq(nb, {q \in Positions(w, h) : g[q] /= WALL})

\* MazeSolver.reconstruct_path: parent links followed to None, then reversed.
\* `fuel` bounds the walk by the number of cells (a cyclic chain never ends in the code).
RECURSIVE PathTo(_, _, _)
PathTo(parent, cell, fuel) ==
  IF cell = NoCell \/ fuel = 0 THEN << >>
  ELSE Append(PathTo(parent, parent[cell], fuel - 1), cell)

\* The path left in end-to-start order (the final reversal forgotten).
ReconstructPath_Unreversed(parent, cell) ==
  LET back == PathTo(parent, cell, Cardinality(DOMAIN parent) + 1)
  IN [i \in 1 .. Len(back) |-> back[Len(back) + 1 - i]]

ReconstructPath(parent, cell) == PathTo(parent, cell, Cardinality(DOMAIN parent) + 1)

\* MazeSolver.process_special_cell: the first other Teleport cell, row-major, and
\* the visited set with both cells added; NoCell and the set untouched otherwise.
ProcessSpecialCell(g, w, h, cell, visited) ==
  LET others == FilterSeq(RowMajor(w, h),
                          {p \in Positions(w, h) : g[p] = TELEPORT /\ p /= cell})
  IN IF g[cell] = TELEPORT /\ others /= << >>
     THEN [target |-> others[1], visited |-> visited \cup {cell, others[1]}]
     ELSE [target |-> NoCell, visited |-> visited]

\* AStarSolver.heuristic
Heuristic(cell, end) ==
  (IF cell[1] >= end[1] THEN cell[1] - end[1] ELSE end[1] - cell[1])
  + (IF cell[2] >= end[2] THEN cell[2] - end[2] ELSE end[2] - cell[2])

\* A dict with one key set.
Put(f, k, v) == [x \in DOMAIN f \cup {k} |-> IF x = k THEN v ELSE f[x]]

EmptyDict == [x \in {} |-> 0]

\* A solver object as its constructor leaves it (MazeSolver.__init__ and the
\* subclass __init__); gen is the viewer's generator handle for it.
\* maze names the matrix of MazeCell objects the solver holds (two solvers given
\* the same matrix share its cells, parent links included).
\* pops, popped, tpass and after are history: the frontier pops of the last
\* next(), every cell popped so far in order, every teleport pass-through so far,
\* and the passes of update() that made no call on the solver because it had
\* found its path or its generator had ended (where a caller resumes the
\* generators itself: the next() calls made after the generator's end).
NewSolver(g, w, h, gen) ==
  [ start |-> LastOf(g, w, h, START),
    end |-> LastOf(g, w, h, END),
    visited |-> {},
    steps |-> 0,
    path |-> << >>,
    solution_found |-> FALSE,
    current_cell |-> NoCell,
    parent |-> [p \in Positions(w, h) |-> NoCell],
    frontier |-> << >>,
    gen |-> gen,
    maze |-> 0,
    pops |-> 0,
    popped |-> << >>,
    tpass |-> {},
    after |-> 0 ]

NewAStar(g, w, h, gen) ==
  [ start |-> LastOf(g, w, h, START),
    end |-> LastOf(g, w, h, END),
    visited |-> {},
    steps |-> 0,
    path |-> << >>,
    solution_found |-> FALSE,
    current_cell |-> NoCell,
    parent |-> [p \in Positions(w, h) |-> NoCell],
    open_set |-> {},
    g_score |-> EmptyDict,
    f_score |-> EmptyDict,
    counter |-> 0,
    gen |-> gen,
    maze |-> 0,
    pops |-> 0,
    popped |-> << >>,
    tpass |-> {},
    after |-> 0 ]

\* The neighbour loop leaving after the first neighbour it inserts.
RECURSIVE ExpandList_FirstOnly(_, _, _)
ExpandList_FirstOnly(s, cur, nbs) ==
  IF nbs = << >> THEN s
  ELSE LET n == Head(nbs)
       IN IF n \notin s.visited
          THEN [s EXCEPT !.visited = @ \cup {n},
                         !.parent[n] = cur,
                         !.frontier = Append(@, n)]
          ELSE ExpandList_FirstOnly(s, cur, Tail(nbs))

\* The neighbour loop of BFSSolver.solve / DFSSolver.solve (lines 129-133, 166-170).
RECURSIVE ExpandList(_, _, _)
ExpandList(s, cur, nbs) ==
  IF nbs = << >> THEN s
  ELSE LET n == Head(nbs)
       IN IF n \notin s.visited
          THEN ExpandList([s EXCEPT !.visited = @ \cup {n},
                                    !.parent[n] = cur,
                                    !.frontier = Append(@, n)], cur, Tail(nbs))
          ELSE ExpandList(s, cur, Tail(nbs))

\* The teleport branch crediting a step before its `continue`.
TeleportList_Counted(s, cur, sp, before) ==
  LET linked == sp.target \notin sp.visited
      s1 == [s EXCEPT !.visited = sp.visited,
                      !.steps = @ + 1,
                      !.tpass = @ \cup {[cand |-> cur, target |-> sp.target,
                                         fresh |-> sp.target \notin before,
                                         linked |-> linked]}]
  IN IF linked
     THEN [s1 EXCEPT !.parent[sp.target] = cur,
                     !.visited = @ \cup {sp.target},
                     !.frontier = Append(@, sp.target)]
     ELSE s1

\* Lines 121-127 / 158-164: the teleport branch, given what process_special_cell returned.
TeleportList(s, cur, sp, before) ==
  LET linked == sp.target \notin sp.visited
      s1 == [s EXCEPT !.visited = sp.visited,
                      !.tpass = @ \cup {[cand |-> cur, target |-> sp.target,
                                         fresh |-> sp.target \notin before,
                                         linked |-> linked]}]
  IN IF linked
     THEN [s1 EXCEPT !.parent[sp.target] = cur,
                     !.visited = @ \cup {sp.target},
                     !.frontier = Append(@, sp.target)]
     ELSE s1

\* The queue popped at its tail (pop() written for popleft()).
BFSPop_Last(q) == [cell |-> q[Len(q)], rest |-> SubSeq(q, 1, Len(q) - 1)]

\* queue.popleft()
BFSPop(q) == [cell |-> Head(q), rest |-> Tail(q)]

\* stack.pop()
DFSPop(q) == [cell |-> q[Len(q)], rest |-> SubSeq(q, 1, Len(q) - 1)]

\* BFSSolver.solve from the top of `while self.queue:` to the next yield or return.
RECURSIVE BFSLoop(_, _, _, _)
BFSLoop(g, w, h, s) ==
  IF s.frontier = << >> THEN [s EXCEPT !.gen = "stopped"]
  ELSE LET pop == BFSPop(s.frontier)
           cur == pop.cell
           s1 == [s EXCEPT !.frontier = pop.rest, !.current_cell = cur,
                           !.pops = @ + 1, !.popped = Append(@, cur)]
           sp == ProcessSpecialCell(g, w, h, cur, s1.visited)
       IN IF cur = s.end
          THEN [s1 EXCEPT !.path = ReconstructPath(s1.parent, cur),
                          !.solution_found = TRUE,
                          !.gen = "yield_true"]
          ELSE IF sp.target /= NoCell
               THEN BFSLoop(g, w, h, TeleportList(s1, cur, sp, s1.visited))
               ELSE [ExpandList(s1, cur, GetNeighbors(g, w, h, cur))
                       EXCEPT !.steps = @ + 1, !.gen = "yield_false"]

\* DFSSolver.solve from the top of `while self.stack:` to the next yield or return.
RECURSIVE DFSLoop(_, _, _, _)
DFSLoop(g, w, h, s) ==
  IF s.frontier = << >> THEN [s EXCEPT !.gen = "stopped"]
  ELSE LET pop == DFSPop(s.frontier)
           cur == pop.cell
           s1 == [s EXCEPT !.frontier = pop.rest, !.current_cell = cur,
                           !.pops = @ + 1, !.popped = Append(@, cur)]
           sp == ProcessSpecialCell(g, w, h, cur, s1.visited)
       IN IF cur = s.end
          THEN [s1 EXCEPT !.path = ReconstructPath(s1.parent, cur),
                          !.solution_found = TRUE,
                          !.gen = "yield_true"]
          ELSE IF sp.target /= NoCell
               THEN DFSLoop(g, w, h, TeleportList(s1, cur, sp, s1.visited))
               ELSE [ExpandList(s1, cur, GetNeighbors(g, w, h, cur))
                       EXCEPT !.steps = @ + 1, !.gen = "yield_false"]

\* One next() on a solve() whose `yield True` is not followed by `return`: the
\* loop resumes after the End was found.
BFSNext_NoReturn(g, w, h, s) ==
  IF s.gen = "fresh"
  THEN BFSLoop(g, w, h, [s EXCEPT !.frontier = Append(@, s.start),
                                  !.visited = @ \cup {s.start},
                                  !.pops = 0])
  ELSE IF s.gen \in {"yield_false", "yield_true"} THEN BFSLoop(g, w, h, [s EXCEPT !.pops = 0])
  ELSE [s EXCEPT !.gen = "stopped", !.pops = 0]

\* One next() on BFSSolver.solve().
BFSNext(g, w, h, s) ==
  IF s.gen = "fresh"
  THEN BFSLoop(g, w, h, [s EXCEPT !.frontier = Append(@, s.start),
                                  !.visited = @ \cup {s.start},
                                  !.pops = 0])
  ELSE IF s.gen = "yield_false" THEN BFSLoop(g, w, h, [s EXCEPT !.pops = 0])
  ELSE [s EXCEPT !.gen = "stopped", !.pops = 0]

\* One next() on DFSSolver.solve().
DFSNext(g, w, h, s) ==
  IF s.gen = "fresh"
  THEN DFSLoop(g, w, h, [s EXCEPT !.frontier = Append(@, s.start),
                                  !.visited = @ \cup {s.start},
                                  !.pops = 0])
  ELSE IF s.gen = "yield_false" THEN DFSLoop(g, w, h, [s EXCEPT !.pops = 0])
  ELSE [s EXCEPT !.gen = "stopped", !.pops = 0]

\* heapq.heappush(open_set, (f, counter, cell)) after counter += 1.
HeapPush(s, cell, f) ==
  [s EXCEPT !.counter = @ + 1, !.open_set = @ \cup {<<f, s.counter + 1, cell>>}]

\* The heap's least entry by (f, counter): open_set[0].
HeapMin(open) ==
  CHOOSE e \in open :
    \A o \in open : e[1] < o[1] \/ (e[1] = o[1] /\ e[2] <= o[2])

\* The least entry read but left in the heap (open_set[0] written for heappop).
HeapPop_Peek(open) == [entry |-> HeapMin(open), rest |-> open]

\* heapq.heappop(open_set)
HeapPop(open) == [entry |-> HeapMin(open), rest |-> open \ {HeapMin(open)}]

\* The neighbour loop of AStarSolver.solve without line 225: a pushed neighbour
\* is not added to visited.
RECURSIVE ExpandHeap_Unmarked(_, _, _)
ExpandHeap_Unmarked(s, cur, nbs) ==
  IF nbs = << >> THEN s
  ELSE LET n == Head(nbs)
           tentative_g == s.g_score[cur] + 1
       IN IF n \notin s.visited
             /\ (n \notin DOMAIN s.g_score \/ tentative_g < s.g_score[n])
          THEN ExpandHeap_Unmarked(
                 HeapPush([s EXCEPT !.parent[n] = cur,
                                    !.g_score = Put(@, n, tentative_g),
                                    !.f_score = Put(@, n, tentative_g + Heuristic(n, s.end))],
                          n, tentative_g + Heuristic(n, s.end)),
                 cur, Tail(nbs))
          ELSE ExpandHeap_Unmarked(s, cur, Tail(nbs))

\* The neighbour loop of AStarSolver.solve (lines 216-225).
RECURSIVE ExpandHeap(_, _, _)
ExpandHeap(s, cur, nbs) ==
  IF nbs = << >> THEN s
  ELSE LET n == Head(nbs)
           tentative_g == s.g_score[cur] + 1
       IN IF n \notin s.visited
             /\ (n \notin DOMAIN s.g_score \/ tentative_g < s.g_score[n])
          THEN ExpandHeap(
                 [HeapPush([s EXCEPT !.parent[n] = cur,
                                     !.g_score = Put(@, n, tentative_g),
                                     !.f_score = Put(@, n, tentative_g + Heuristic(n, s.end))],
                           n, tentative_g + Heuristic(n, s.end))
                    EXCEPT !.visited = @ \cup {n}],
                 cur, Tail(nbs))
          ELSE ExpandHeap(s, cur, Tail(nbs))

\* Lines 205-213: the teleport branch of AStarSolver.solve.
TeleportHeap(s, cur, sp, before) ==
  LET linked == sp.target \notin sp.visited
      s1 == [s EXCEPT !.visited = sp.visited,
                      !.tpass = @ \cup {[cand |-> cur, target |-> sp.target,
                                         fresh |-> sp.target \notin before,
                                         linked |-> linked]}]
      gt == s.g_score[cur] + 1
  IN IF linked
     THEN HeapPush([s1 EXCEPT !.parent[sp.target] = cur,
                              !.visited = @ \cup {sp.target},
                              !.g_score = Put(@, sp.target, gt),
                              !.f_score = Put(@, sp.target, gt + Heuristic(sp.target, s.end))],
                   sp.target, gt + Heuristic(sp.target, s.end))
     ELSE s1

\* AStarSolver.solve from the top of `while self.open_set:` to the next yield or return.
AStarLoop(g, w, h, s) ==
  IF s.open_set = {} THEN [s EXCEPT !.gen = "stopped"]
  ELSE LET pop == HeapPop(s.open_set)
           cur == pop.entry[3]
           s1 == [s EXCEPT !.open_set = pop.rest, !.current_cell = cur,
                           !.pops = @ + 1, !.popped = Append(@, cur)]
           sp == ProcessSpecialCell(g, w, h, cur, s1.visited)
       IN IF cur = s.end
          THEN [s1 EXCEPT !.path = ReconstructPath(s1.parent, cur),
                          !.solution_found = TRUE,
                          !.gen = "yield_true"]
          ELSE IF sp.target /= NoCell
               THEN [TeleportHeap(s1, cur, sp, s1.visited) EXCEPT !.gen = "yield_false"]
               ELSE [ExpandHeap(s1, cur, GetNeighbors(g, w, h, cur))
                       EXCEPT !.steps = @ + 1, !.gen = "yield_false"]

\* One next() on AStarSolver.solve().
AStarNext(g, w, h, s) ==
  IF s.gen = "fresh"
  THEN LET f0 == Heuristic(s.start, s.end)
           s0 == [s EXCEPT !.g_score = Put(@, s.start, 0),
                           !.f_score = Put(@, s.start, f0),
                           !.pops = 0]
       IN AStarLoop(g, w, h, [HeapPush(s0, s.start, f0) EXCEPT !.visited = @ \cup {s.start}])
  ELSE IF s.gen = "yield_false" THEN AStarLoop(g, w, h, [s EXCEPT !.pops = 0])
  ELSE [s EXCEPT !.gen = "stopped", !.pops = 0]

\* No solver object exists yet.
NoSolver == [gen |-> "none"]

\* No grid has been returned yet.
NoGrid == << >>

\* ------------------------------------------------------------------ state
VARIABLES
  pc,          \* where the program is
  width,       \* generate_maze's width / len(maze[0])
  height,      \* generate_maze's height / len(maze)
  grid,        \* the grid under construction, then the maze handed to the solvers
  walls,       \* generate_maze's frontier list `walls`
  empty_cells, \* generate_maze's list `empty_cells`
  gstart,      \* generate_maze's `start` (NoCell before placement)
  gend,        \* generate_maze's `end`
  tele,        \* the cells generate_maze marked 'T' (a sequence, in marking order)
  pen_left,    \* iterations left of the penalty loop
  prev_grid,   \* the grid an earlier call of generate_maze returned (NoGrid: none)
  bfs,         \* MazeViewer.bfs_solver with bfs_gen
  dfs,         \* MazeViewer.dfs_solver with dfs_gen
  astar,       \* MazeViewer.astar_solver with astar_gen
  visualizing  \* MazeViewer.visualizing

gvars_data == <<width, height, grid, walls, empty_cells, gstart, gend, tele, pen_left,
               prev_grid>>
gvars == <<pc, width, height, grid, walls, empty_cells, gstart, gend, tele, pen_left,
           prev_grid>>
svars == <<bfs, dfs, astar, visualizing>>
vars == <<pc, width, height, grid, walls, empty_cells, gstart, gend, tele, pen_left,
          prev_grid, bfs, dfs, astar, visualizing>>

\* ------------------------------------------------------------------ generator actions
GenInit ==
  /\ pc = "gen_call"
  /\ width \in GenDims
  /\ height \in GenDims
  /\ width * height <= MaxArea
  /\ grid = [p \in Positions(width, height) |-> WALL]
  /\ walls = << >>
  /\ empty_cells = << >>
  /\ gstart = NoCell
  /\ gend = NoCell
  /\ tele = << >>
  /\ pen_left = 0
  /\ prev_grid = NoGrid
  /\ bfs = NoSolver
  /\ dfs = NoSolver
  /\ astar = NoSolver
  /\ visualizing = FALSE

\* The values of random.randint(0, n - 2).
GenRange_FromZero(n) == 0 .. n - 2

\* The values of random.randint(1, n - 2) (line 9); none when n < 3.
GenRange(n) == 1 .. n - 2

\* Lines 5-16 for dimensions on which random.randint(1, n-2) has a value.
GenBegin ==
  /\ pc = "gen_call"
  /\ \E sx \in GenRange(width), sy \in GenRange(height) :
       /\ grid' = [grid EXCEPT ![<<sx, sy>>] = PATH]
       /\ walls' = NewWalls(grid, <<sx, sy>>, width, height, FALSE)
  /\ pc' = "carve"
  /\ UNCHANGED <<width, height, empty_cells, gstart, gend, tele, pen_left, prev_grid, svars>>

\* Line 9 on an empty range: random.randint raises ValueError, no grid is returned.
GenRaise ==
  /\ pc = "gen_call"
  /\ (GenRange(width) = {} \/ GenRange(height) = {})
  /\ pc' = "gen_error"
  /\ UNCHANGED <<width, height, grid, walls, empty_cells, gstart, gend, tele, pen_left, prev_grid, svars>>

\* One iteration of `while walls:` (lines 18-41).
CarveStep ==
  /\ pc = "carve"
  /\ walls /= << >>
  /\ \E i \in 1 .. Len(walls) :
       LET wl == walls[i]
           p == <<wl[1], wl[2]>>
           rest == RemoveAt(walls, i)
       IN IF grid[p] /= WALL
          THEN /\ walls' = rest
               /\ grid' = grid
          ELSE IF Connected(grid, p, width, height) = 1
               THEN /\ grid' = [grid EXCEPT ![p] = PATH]
                    /\ walls' = rest \o NewWalls([grid EXCEPT ![p] = PATH], p, width, height, TRUE)
               ELSE /\ walls' = rest
                    /\ grid' = grid
  /\ UNCHANGED <<pc, width, height, empty_cells, gstart, gend, tele, pen_left, prev_grid, svars>>

\* Lines 44-99: flood fill from a random empty cell, Start chosen among the
\* reachable cells, End the farthest cell, both written to the grid (End last).
PlaceStartEnd ==
  /\ pc = "carve"
  /\ walls = << >>
  /\ LET ec == EmptyCells(grid, width, height)
     IN \E f \in Range(ec) :
          LET visited == FloodFill(grid, width, height, <<f>>, {})
              reach0 == IF visited = {} THEN Range(ec) ELSE visited
          IN \E s \in reach0 :
               LET reach == reach0 \ {s}
                   dist == Distances(grid, width, height, << <<s, 0>> >>, << >>)
                   ends == IF dist /= << >> THEN {Farthest(dist)}
                           ELSE IF reach /= {} THEN reach ELSE {s}
               IN \E e \in ends :
                    LET g1 == [grid EXCEPT ![s] = START]
                        g2 == [g1 EXCEPT ![e] = END]
                    IN /\ grid' = g2
                       /\ gstart' = s
                       /\ gend' = e
                       /\ empty_cells' = EmptyCells(g2, width, height)
  /\ pc' = "teleports"
  /\ UNCHANGED <<width, height, walls, tele, pen_left, prev_grid, svars>>

\* The second teleport drawn without removing the first from the list.
TeleportChoices_Same(ec) == Range(ec) \X Range(ec)

\* Lines 103-106: the pairs (teleport1, teleport2) the two random.choice calls can
\* return, the second drawn after the first was removed from the list.
TeleportChoices(ec) ==
  {pr \in Range(ec) \X Range(ec) : pr[2] \in Range(RemoveFirst(ec, pr[1]))}

\* The count without its floor of one: len(empty_cells) // 20.
PenaltyCount_NoFloor(ec) == Len(ec) \div 20

\* penalty_count = max(1, len(empty_cells) // 20) (line 111)
PenaltyCount(ec) == Max2(1, Len(ec) \div 20)

\* Lines 102-111: the teleport pair, then the penalty count.
PlaceTeleports ==
  /\ pc = "teleports"
  /\ IF Len(empty_cells) >= 2
     THEN \E pr \in TeleportChoices(empty_cells) :
            LET ec2 == RemoveFirst(RemoveFirst(empty_cells, pr[1]), pr[2])
            IN /\ grid' = [[grid EXCEPT ![pr[1]] = TELEPORT] EXCEPT ![pr[2]] = TELEPORT]
               /\ tele' = <<pr[1], pr[2]>>
               /\ empty_cells' = ec2
               /\ pen_left' = PenaltyCount(ec2)
     ELSE /\ grid' = grid
          /\ tele' = << >>
          /\ empty_cells' = empty_cells
          /\ pen_left' = PenaltyCount(empty_cells)
  /\ pc' = "penalties"
  /\ UNCHANGED <<width, height, walls, gstart, gend, prev_grid, svars>>

\* One iteration of the penalty loop (lines 112-117).
PlacePenalty ==
  /\ pc = "penalties"
  /\ pen_left > 0
  /\ empty_cells /= << >>
  /\ \E p \in Range(empty_cells) :
       /\ empty_cells' = RemoveFirst(empty_cells, p)
       /\ grid' = [grid EXCEPT ![p] = PENALTY]
  /\ pen_left' = pen_left - 1
  /\ UNCHANGED <<pc, width, height, walls, gstart, gend, tele, prev_grid, svars>>

\* The loop ends (count reached, or `break` on an empty list) and the grid is returned.
GenReturn ==
  /\ pc = "penalties"
  /\ (pen_left = 0 \/ empty_cells = << >>)
  /\ pc' = "generated"
  /\ UNCHANGED <<width, height, grid, walls, empty_cells, gstart, gend, tele, pen_left, prev_grid, svars>>

GenNext ==
  \/ GenBegin
  \/ GenRaise
  \/ CarveStep
  \/ PlaceStartEnd
  \/ PlaceTeleports
  \/ PlacePenalty
  \/ GenReturn

\* ------------------------------------------------------------------ generating twice
TwiceInit ==
  /\ GenInit
  /\ width * height <= TwiceArea

\* The program is run again with the same width and height, the grid of the
\* first run kept aside. The module takes no seed and never calls random.seed.
RunAgain ==
  /\ pc = "generated"
  /\ prev_grid = NoGrid
  /\ prev_grid' = grid
  /\ pc' = "gen_call"
  /\ grid' = [p \in Positions(width, height) |-> WALL]
  /\ walls' = << >>
  /\ empty_cells' = << >>
  /\ gstart' = NoCell
  /\ gend' = NoCell
  /\ tele' = << >>
  /\ pen_left' = 0
  /\ UNCHANGED <<width, height, svars>>

TwiceNext ==
  \/ GenNext
  \/ RunAgain

\* ------------------------------------------------------------------ loaded mazes
Shapes == {d \in (1 .. MaxCells) \X (1 .. MaxCells) : d[1] * d[2] <= MaxCells}

Count(g, t) == Cardinality({p \in DOMAIN g : g[p] = t})

\* Every w x h grid over the tiles the solvers tell apart (they treat 'P' as ' '),
\* with at most one Start and at most one End.
SmallGrids(w, h) ==
  {g \in [Positions(w, h) -> {WALL, PATH, TELEPORT, START, END}] :
     Count(g, START) <= 1 /\ Count(g, END) <= 1}

\* A grid from its rows, top row first.
FromRows(rows) ==
  [p \in Positions(Len(rows[1]), Len(rows)) |-> rows[p[2] + 1][p[1] + 1]]

\* Border walls, open interior, Start at (1,1), End at (3,3).
OpenRoom ==
  << <<"#", "#", "#", "#", "#">>,
     <<"#", "S", " ", " ", "#">>,
     <<"#", " ", " ", " ", "#">>,
     <<"#", " ", " ", "E", "#">>,
     <<"#", "#", "#", "#", "#">> >>

\* Two routes from Start (4,1) to End (0,2) around walls.
TwoRoutes ==
  << <<" ", " ", " ", " ", " ">>,
     <<" ", "#", " ", "#", "S">>,
     <<"E", "#", " ", " ", " ">> >>

\* A Penalty tile and a Teleport pair off the only route.
PenaltyRoute ==
  << <<"S", "P", " ", "T">>,
     <<"#", "T", " ", "E">> >>

\* Two 'S' and two 'E' characters: initialize_maze keeps the last of each.
TwoStarts ==
  << <<"S", " ", "E">>,
     <<"E", " ", "S">> >>

Scenarios == {OpenRoom, TwoRoutes, PenaltyRoute, TwoStarts}

LoadedMazes ==
  UNION {{[w |-> d[1], h |-> d[2], g |-> g] : g \in SmallGrids(d[1], d[2])} : d \in Shapes}
  \cup {[w |-> Len(r[1]), h |-> Len(r), g |-> FromRows(r)] : r \in Scenarios}

\* load_maze has returned a grid; no generator ran in this process.
LoadInit ==
  /\ pc = "loaded"
  /\ \E m \in LoadedMazes :
       /\ width = m.w
       /\ height = m.h
       /\ grid = m.g
  /\ walls = << >>
  /\ empty_cells = << >>
  /\ gstart = NoCell
  /\ gend = NoCell
  /\ tele = << >>
  /\ pen_left = 0
  /\ prev_grid = NoGrid
  /\ bfs = NoSolver
  /\ dfs = NoSolver
  /\ astar = NoSolver
  /\ visualizing = FALSE

\* ------------------------------------------------------------------ the penalty loop on larger grids
\* Grids as generate_maze holds them at line 111, Start, End and the Teleport
\* pair placed and no Penalty yet, taken from runs of the generator.
\* generate_maze(11, 9) after random.seed(51): 40 plain cells remain.
Entry40 ==
  << <<"#", "#", "#", "#", "#", "#", "#", "#", "#", "#", "#">>,
     <<"#", "T", " ", "#", " ", " ", " ", " ", " ", "E", "#">>,
     <<"#", " ", "#", " ", "#", " ", "#", " ", "#", "#", "#">>,
     <<"#", " ", "#", " ", " ", " ", " ", "#", " ", " ", "#">>,
     <<"#", " ", "S", "#", " ", "#", " ", " ", "#", " ", "#">>,
     <<"#", " ", "#", " ", "#", " ", " ", "#", " ", " ", "#">>,
     <<"#", "T", " ", " ", "#", "#", " ", " ", " ", "#", "#">>,
     <<"#", " ", "#", " ", " ", " ", " ", "#", " ", " ", "#">>,
     <<"#", "#", "#", "#", "#", "#", "#", "#", "#", "#", "#">> >>

\* generate_maze(11, 9) after random.seed(16): 39 plain cells remain.
Entry39 ==
  << <<"#", "#", "#", "#", "#", "#", "#", "#", "#", "#", "#">>,
     <<"#", "S", "#", "T", " ", "#", " ", " ", " ", " ", "#">>,
     <<"#", " ", " ", " ", "#", " ", "#", " ", "#", "#", "#">>,
     <<"#", " ", "#", " ", " ", " ", "#", " ", "T", " ", "#">>,
     <<"#", "#", " ", " ", "#", " ", " ", " ", "#", " ", "#">>,
     <<"#", " ", "#", " ", " ", "#", " ", "#", " ", "#", "#">>,
     <<"#", " ", " ", " ", "#", " ", " ", " ", " ", " ", "#">>,
     <<"#", " ", "#", " ", " ", "#", " ", "#", "#", "E", "#">>,
     <<"#", "#", "#", "#", "#", "#", "#", "#", "#", "#", "#">> >>

\* generate_maze(5, 3): one plain cell remains, too few for a Teleport pair.
Entry1 ==
  << <<"#", "#", "#", "#", "#">>,
     <<"#", "S", " ", "E", "#">>,
     <<"#", "#", "#", "#", "#">> >>

\* generate_maze(4, 3): no plain cell remains.
Entry0 ==
  << <<"#", "#", "#", "#">>,
     <<"#", "E", "S", "#">>,
     <<"#", "#", "#", "#">> >>

PenaltyEntries == {Entry40, Entry39, Entry1, Entry0}

\* teleport1, teleport2 as lines 103-107 may have drawn them: the two Teleport
\* cells of the grid in either order, or none.
TeleportOrders(g, w, h) ==
  LET t == FilterSeq(RowMajor(w, h), {p \in Positions(w, h) : g[p] = TELEPORT})
  IN IF Len(t) = 2 THEN {t, <<t[2], t[1]>>} ELSE {t}

\* generate_maze about to enter the penalty loop (line 112).
PenaltyInit ==
  /\ pc = "penalties"
  /\ \E r \in PenaltyEntries :
       /\ width = Len(r[1])
       /\ height = Len(r)
       /\ grid = FromRows(r)
  /\ walls = << >>
  /\ empty_cells = EmptyCells(grid, width, height)
  /\ gstart = LastOf(grid, width, height, START)
  /\ gend = LastOf(grid, width, height, END)
  /\ tele \in TeleportOrders(grid, width, height)
  /\ pen_left = PenaltyCount(empty_cells)
  /\ prev_grid = NoGrid
  /\ bfs = NoSolver
  /\ dfs = NoSolver
  /\ astar = NoSolver
  /\ visualizing = FALSE

PenaltyNext ==
  \/ PlacePenalty
  \/ GenReturn

\* ------------------------------------------------------------------ viewer actions
\* initialize_maze's test before raising (line 66) with `and` for `or`.
EndpointsMissing_Both(g, w, h) ==
  LastOf(g, w, h, START) = NoCell /\ LastOf(g, w, h, END) = NoCell

\* `not self.start or not self.end` (line 66).
EndpointsMissing(g, w, h) ==
  LastOf(g, w, h, START) = NoCell \/ LastOf(g, w, h, END) = NoCell

\* One matrix handed to all three solvers.
MazeCopies_Shared == <<1, 1, 1>>

\* The matrices of MazeCell objects given to the BFS, DFS and A* solvers: three
\* separate copies (deepcopy at lines 313-315, new cells at lines 348-350).
MazeCopies == <<1, 2, 3>>

WithMaze(s, id) == [s EXCEPT !.maze = id]

\* MazeCell.parent lives in the cell object: a solver holding the same matrix as
\* the solver that just ran sees the parent links that solver wrote.
Sync(other, ran) ==
  IF other.maze = ran.maze THEN [other EXCEPT !.parent = ran.parent] ELSE other

\* MazeViewer.__init__ on a maze with both endpoints (lines 311-319).
Construct ==
  /\ pc \in {"loaded", "generated"}
  /\ ~EndpointsMissing(grid, width, height)
  /\ bfs' = WithMaze(NewSolver(grid, width, height, "none"), MazeCopies[1])
  /\ dfs' = WithMaze(NewSolver(grid, width, height, "none"), MazeCopies[2])
  /\ astar' = WithMaze(NewAStar(grid, width, height, "none"), MazeCopies[3])
  /\ visualizing' = FALSE
  /\ pc' = "viewer"
  /\ UNCHANGED gvars_data

\* initialize_maze raises ValueError (lines 66-67): no solver exists.
ConstructRaise ==
  /\ pc \in {"loaded", "generated"}
  /\ EndpointsMissing(grid, width, height)
  /\ pc' = "ctor_error"
  /\ UNCHANGED <<gvars_data, svars>>

\* handle_events with a click on Start while not visualizing (lines 344-354).
ClickStart ==
  /\ pc = "viewer"
  /\ ~visualizing
  /\ bfs' = WithMaze(NewSolver(grid, width, height, "fresh"), MazeCopies[1])
  /\ dfs' = WithMaze(NewSolver(grid, width, height, "fresh"), MazeCopies[2])
  /\ astar' = WithMaze(NewAStar(grid, width, height, "fresh"), MazeCopies[3])
  /\ visualizing' = TRUE
  /\ UNCHANGED gvars

\* The test of lines 360, 365, 370 without `not solution_found`.
Live_IgnoresFound(s) == s.gen \notin {"none", "stopped"}

Live(s) == s.gen \notin {"none", "stopped"} /\ ~s.solution_found

Finished(s) == s.solution_found \/ s.gen \in {"none", "stopped"}

\* MazeViewer.update while visualizing (lines 357-379).
Update ==
  /\ pc = "viewer"
  /\ visualizing
  /\ LET b1 == IF Live(bfs) THEN BFSNext(grid, width, height, bfs) ELSE bfs
         d0 == Sync(dfs, b1)
         d1 == IF Live(d0) THEN DFSNext(grid, width, height, d0) ELSE d0
         a0 == Sync(Sync(astar, b1), d1)
         a1 == IF Live(a0) THEN AStarNext(grid, width, height, a0) ELSE a0
     IN /\ bfs' = Sync(Sync(b1, d1), a1)
        /\ dfs' = Sync(d1, a1)
        /\ astar' = a1
  /\ visualizing' = ~(Finished(bfs') /\ Finished(dfs') /\ Finished(astar'))
  /\ UNCHANGED gvars

Next ==
  \/ Construct
  \/ ConstructRaise
  \/ ClickStart
  \/ Update

GenViewNext ==
  \/ GenNext
  \/ Next

\* ------------------------------------------------------------------ update(), statement by statement
\* The solver's generator has ended: it yielded True, or raised StopIteration.
Terminal(s) == s.solution_found \/ s.gen = "stopped"

\* The mazes on which update() is followed statement by statement: the small
\* grids a solver can be constructed on, and the scenarios.
StepMazes ==
  UNION {{[w |-> d[1], h |-> d[2], g |-> g] :
            g \in {x \in SmallGrids(d[1], d[2]) : ~EndpointsMissing(x, d[1], d[2])}} :
         d \in {e \in Shapes : e[1] * e[2] <= StepCells}}
  \cup {[w |-> Len(r[1]), h |-> Len(r), g |-> FromRows(r)] : r \in Scenarios}

\* The positions inside update(): before each solver's statement and before the
\* closing test.
StepPositions == {"step_bfs", "step_dfs", "step_astar", "step_end"}

\* A click on Start has created the three solvers on one maze and called
\* solve() on each (lines 348-354); update() is about to run.
StepsInit ==
  /\ pc = "step_bfs"
  /\ \E m \in StepMazes :
       /\ width = m.w
       /\ height = m.h
       /\ grid = m.g
  /\ walls = << >>
  /\ empty_cells = << >>
  /\ gstart = NoCell
  /\ gend = NoCell
  /\ tele = << >>
  /\ pen_left = 0
  /\ prev_grid = NoGrid
  /\ bfs = WithMaze(NewSolver(grid, width, height, "fresh"), MazeCopies[1])
  /\ dfs = WithMaze(NewSolver(grid, width, height, "fresh"), MazeCopies[2])
  /\ astar = WithMaze(NewAStar(grid, width, height, "fresh"), MazeCopies[3])
  /\ visualizing = TRUE

\* One solver's statement of update() (lines 360-364, 365-369, 370-374):
\* `stepped` is the solver after next(); a solver that has found its path or
\* whose generator is gone is left as it is.
StepIfLive(s, stepped) ==
  IF Live(s) THEN stepped ELSE [s EXCEPT !.after = @ + 1]

\* Lines 358-364 of update().
StepBFS ==
  /\ pc = "step_bfs"
  /\ visualizing
  /\ LET out == StepIfLive(bfs, BFSNext(grid, width, height, bfs))
     IN /\ bfs' = out
        /\ dfs' = Sync(dfs, out)
        /\ astar' = Sync(astar, out)
  /\ pc' = "step_dfs"
  /\ UNCHANGED <<gvars_data, visualizing>>

\* Lines 365-369 of update().
StepDFS ==
  /\ pc = "step_dfs"
  /\ LET out == StepIfLive(dfs, DFSNext(grid, width, height, dfs))
     IN /\ dfs' = out
        /\ bfs' = Sync(bfs, out)
        /\ astar' = Sync(astar, out)
  /\ pc' = "step_astar"
  /\ UNCHANGED <<gvars_data, visualizing>>

\* Lines 370-374 of update().
StepAStar ==
  /\ pc = "step_astar"
  /\ LET out == StepIfLive(astar, AStarNext(grid, width, height, astar))
     IN /\ astar' = out
        /\ bfs' = Sync(bfs, out)
        /\ dfs' = Sync(dfs, out)
  /\ pc' = "step_end"
  /\ UNCHANGED <<gvars_data, visualizing>>

\* Lines 375-379 of update(): the run is over when all three are done.
StepEnd ==
  /\ pc = "step_end"
  /\ visualizing' = ~(Finished(bfs) /\ Finished(dfs) /\ Finished(astar))
  /\ pc' = "step_bfs"
  /\ UNCHANGED <<gvars_data, bfs, dfs, astar>>

StepsNext ==
  \/ StepBFS
  \/ StepDFS
  \/ StepAStar
  \/ StepEnd

\* Loaded mazes shown in the viewer.
Spec == LoadInit /\ [][Next]_vars

\* Generated mazes, then shown in the viewer.
SpecGen == GenInit /\ [][GenViewNext]_vars

\* generate_maze called, and called once more with the same arguments.
SpecTwice == TwiceInit /\ [][TwiceNext]_vars

\* The penalty loop of generate_maze, to its return.
SpecPenalty == PenaltyInit /\ [][PenaltyNext]_vars

\* ------------------------------------------------------------------ next() on the generators of solve()
\* solve() has been called on the three solvers of one maze (lines 348-353);
\* from here a caller resumes the three generators itself, in any order.
ResumeInit ==
  /\ pc = "resume"
  /\ \E m \in StepMazes :
       /\ width = m.w
       /\ height = m.h
       /\ grid = m.g
  /\ walls = << >>
  /\ empty_cells = << >>
  /\ gstart = NoCell
  /\ gend = NoCell
  /\ tele = << >>
  /\ pen_left = 0
  /\ prev_grid = NoGrid
  /\ bfs = WithMaze(NewSolver(grid, width, height, "fresh"), MazeCopies[1])
  /\ dfs = WithMaze(NewSolver(grid, width, height, "fresh"), MazeCopies[2])
  /\ astar = WithMaze(NewAStar(grid, width, height, "fresh"), MazeCopies[3])
  /\ visualizing = TRUE

\* What one next() reports to its caller when it takes the generator of solver
\* s to t: the value yielded (lines 118, 136), or StopIteration with the value
\* returned (lines 119, 138), which is None once the generator has ended.
Report(s, t) ==
  IF t.gen = "yield_false" THEN <<"yield", "False">>
  ELSE IF t.gen = "yield_true" THEN <<"yield", "True">>
  ELSE IF s.gen = "yield_true" THEN <<"StopIteration", "True">>
  ELSE IF s.gen = "stopped" THEN <<"StopIteration", "None">>
  ELSE <<"StopIteration", "False">>

\* The solver after one more next(), counting the calls made after its end.
Resumed(s, out) == [out EXCEPT !.after = IF Terminal(s) THEN @ + 1 ELSE @]

\* next() on the generator of BFSSolver.solve, ended or not.
NextBFS ==
  /\ pc = "resume"
  /\ bfs.after < MaxAfter
  /\ LET out == Resumed(bfs, BFSNext(grid, width, height, bfs))
     IN /\ bfs' = out
        /\ dfs' = Sync(dfs, out)
        /\ astar' = Sync(astar, out)
  /\ UNCHANGED <<gvars, visualizing>>

\* next() on the generator of DFSSolver.solve, ended or not.
NextDFS ==
  /\ pc = "resume"
  /\ dfs.after < MaxAfter
  /\ LET out == Resumed(dfs, DFSNext(grid, width, height, dfs))
     IN /\ dfs' = out
        /\ bfs' = Sync(bfs, out)
        /\ astar' = Sync(astar, out)
  /\ UNCHANGED <<gvars, visualizing>>

\* next() on the generator of AStarSolver.solve, ended or not.
NextAStar ==
  /\ pc = "resume"
  /\ astar.after < MaxAfter
  /\ LET out == Resumed(astar, AStarNext(grid, width, height, astar))
     IN /\ astar' = out
        /\ bfs' = Sync(bfs, out)
        /\ dfs' = Sync(dfs, out)
  /\ UNCHANGED <<gvars, visualizing>>

ResumeNext ==
  \/ NextBFS
  \/ NextDFS
  \/ NextAStar

\* The generators of solve() resumed by their caller, also after their end.
SpecResume == ResumeInit /\ [][ResumeNext]_vars

\* The passes of update() after a click on Start, one statement at a time.
SpecSteps == StepsInit /\ [][StepsNext]_vars

\* The same while run() keeps calling update() (no QUIT event stops the loop
\* of lines 485-489): weak fairness of each statement
\* (WF_vars(StepBFS) and so on), written with the statement's position for its
\* enabling condition.
FairSteps ==
  /\ SpecSteps
  /\ ([]<>(~(pc = "step_bfs" /\ visualizing)) \/ []<><<StepBFS>>_vars)
  /\ ([]<>(pc /= "step_dfs") \/ []<><<StepDFS>>_vars)
  /\ ([]<>(pc /= "step_astar") \/ []<><<StepAStar>>_vars)
  /\ ([]<>(pc /= "step_end") \/ []<><<StepEnd>>_vars)

\* ------------------------------------------------------------------ properties
Adjacent(p, q) == Heuristic(p, q) = 1

NonWall(g) == {p \in DOMAIN g : g[p] /= WALL}

\* Cells reachable from `set` by orthogonal moves through non-Wall tiles and, with
\* jumps, by a move between two distinct Teleport tiles.
RECURSIVE ReachFrom(_, _, _)
ReachFrom(g, set, jumps) ==
  LET more == {q \in NonWall(g) :
                 \E p \in set : \/ Adjacent(p, q)
                                \/ jumps /\ g[p] = TELEPORT /\ g[q] = TELEPORT /\ p /= q}
  IN IF more \subseteq set THEN set ELSE ReachFrom(g, set \cup more, jumps)

\* Fewest orthogonal hops from the cells of `layer` (already d hops from the
\* origin) to `target` through non-Wall tiles; -1 when there is no route.
RECURSIVE HopsFrom(_, _, _, _, _)
HopsFrom(g, layer, seen, d, target) ==
  IF target \in layer THEN d
  ELSE IF layer = {} THEN -1
  ELSE LET nxt == {q \in NonWall(g) \ seen : \E p \in layer : Adjacent(p, q)}
       IN HopsFrom(g, nxt, seen \cup nxt, d + 1, target)

ShortestHops(g, from, to) == HopsFrom(g, {from}, {from}, 0, to)

StartCells == {p \in DOMAIN grid : grid[p] = START}

\* A solver whose run has ended without a path: its generator raised StopIteration.
Exhausted(s) == s.gen = "stopped" /\ ~s.solution_found

\* All three runs have ended.
AllDone == pc = "viewer" /\ ~visualizing /\ bfs.gen /= "none"

\* C1: every grid generate_maze returns holds exactly one Start tile and exactly
\* one End tile.
C1_OneStartOneEnd ==
  pc = "generated" => Count(grid, START) = 1 /\ Count(grid, END) = 1

\* C2: the breadth-first solver, run to completion on a generated maze, never
\* ends Exhausted.
C2_GeneratedSolvable ==
  pc = "viewer" => ~Exhausted(bfs)

\* C3: in every generated maze there is a Start tile from which every non-Wall
\* tile is reachable by orthogonal moves through non-Wall tiles.
C3_AllReachableFromStart ==
  pc = "generated" =>
    \E st \in StartCells : NonWall(grid) \subseteq ReachFrom(grid, {st}, FALSE)

\* Connectivity alone, which the carving does give: any two non-Wall tiles of a
\* generated maze are joined by orthogonal moves through non-Wall tiles.
GeneratedConnected ==
  pc = "generated" =>
    \A p \in NonWall(grid) : NonWall(grid) \subseteq ReachFrom(grid, {p}, FALSE)

\* C4: teleport placement marks two distinct plain Path cells when at least two
\* plain Path cells remain after Start and End are placed, and none otherwise;
\* the returned grid holds 0 or 2 Teleport tiles, never 1.
C4_TeleportPair ==
  [][ /\ (pc = "teleports" /\ pc' = "penalties") =>
           LET plain == {p \in DOMAIN grid : grid[p] = PATH}
               marked == {p \in DOMAIN grid : grid'[p] = TELEPORT}
           IN /\ Count(grid, TELEPORT) = 0
              /\ \A p \in DOMAIN grid \ marked : grid'[p] = grid[p]
              /\ marked \subseteq plain
              /\ Cardinality(marked) = (IF Cardinality(plain) >= 2 THEN 2 ELSE 0)
      /\ pc' = "generated" => Count(grid', TELEPORT) \in {0, 2} ]_vars

C4_Witness ==
  /\ pc = "generated"
  /\ Count(grid, TELEPORT) = 2
  /\ Len(tele) = 2 /\ tele[1] /= tele[2]

\* C5: when the breadth-first solver ends Exhausted, the grid holds no route from
\* Start to End by orthogonal moves through non-Wall tiles and Teleport jumps.
C5_ExhaustedMeansNoRoute ==
  (pc = "viewer" /\ Exhausted(bfs)) => bfs.end \notin ReachFrom(grid, {bfs.start}, TRUE)

\* The reconstructed path of solver s satisfies C6.
ValidPath(s) ==
  /\ s.path /= << >>
  /\ s.path[1] = s.start
  /\ s.path[Len(s.path)] = s.end
  /\ \A i \in 1 .. Len(s.path) : grid[s.path[i]] /= WALL
  /\ \A i \in 1 .. Len(s.path) - 1 :
       \/ Adjacent(s.path[i], s.path[i + 1])
       \/ /\ grid[s.path[i]] = TELEPORT
          /\ grid[s.path[i + 1]] = TELEPORT
          /\ s.path[i] /= s.path[i + 1]

\* C6: whenever a solver has found the End, its reconstructed path runs from Start
\* to End over non-Wall tiles, each hop orthogonal or between the Teleport pair.
C6_FoundPathValid ==
  pc = "viewer" =>
    /\ bfs.solution_found => ValidPath(bfs)
    /\ dfs.solution_found => ValidPath(dfs)
    /\ astar.solution_found => ValidPath(astar)

C6_Witness ==
  /\ AllDone
  /\ bfs.solution_found /\ dfs.solution_found /\ astar.solution_found
  /\ Len(bfs.path) >= 4
  /\ Len(dfs.path) > Len(bfs.path)

\* C7: on a grid without Teleport tiles where End is reachable from Start, the
\* breadth-first solver ends with a path of the fewest possible hops.
C7_BFSShortest ==
  (AllDone /\ Count(grid, TELEPORT) = 0
     /\ ShortestHops(grid, bfs.start, bfs.end) >= 0) =>
    /\ bfs.solution_found
    /\ Len(bfs.path) - 1 = ShortestHops(grid, bfs.start, bfs.end)

C7_Witness ==
  /\ AllDone
  /\ Count(grid, TELEPORT) = 0
  /\ bfs.solution_found
  /\ Len(bfs.path) - 1 = ShortestHops(grid, bfs.start, bfs.end)
  /\ Len(bfs.path) - 1 >= 2
  /\ Len(dfs.path) > Len(bfs.path)

\* C8: on a grid without Teleport tiles on which both reach Found, the best-first
\* path has no more hops than the breadth-first path.
C8_AStarNoLongerThanBFS ==
  (pc = "viewer" /\ Count(grid, TELEPORT) = 0
     /\ bfs.solution_found /\ astar.solution_found) =>
    Len(astar.path) - 1 <= Len(bfs.path) - 1

\* C9: the three solvers, each run to completion, agree on the verdict.
C9_SameVerdict ==
  AllDone =>
    /\ bfs.solution_found = dfs.solution_found
    /\ bfs.solution_found = astar.solution_found

C9_Witness ==
  /\ AllDone
  /\ Count(grid, TELEPORT) = 2
  /\ Exhausted(bfs) /\ Exhausted(dfs) /\ Exhausted(astar)
  /\ bfs.end \in ReachFrom(grid, {bfs.start}, FALSE)

C9_WitnessFound ==
  /\ AllDone
  /\ Count(grid, TELEPORT) = 2
  /\ bfs.solution_found /\ dfs.solution_found /\ astar.solution_found
  /\ Len(bfs.path) < Len(dfs.path)

\* Solver s handled each teleport pass-through as C10 says.
PassThroughLinks(s) ==
  \A e \in s.tpass :
    e.fresh => /\ e.linked
               /\ s.parent[e.target] = e.cand

\* C10: when a popped Teleport tile's partner was unvisited before the pop, the
\* partner gets the popped tile as predecessor and enters the frontier.
C10_TeleportLinksPartner ==
  pc = "viewer" =>
    /\ PassThroughLinks(bfs)
    /\ PassThroughLinks(dfs)
    /\ PassThroughLinks(astar)
\* ------------------------------------------------------------------ C11
\* What the caller reads off a solver: Found, Exhausted, or still running.
Result(s) ==
  IF s.solution_found THEN "Found"
  ELSE IF s.gen = "stopped" THEN "Exhausted" ELSE "Running"

\* The fields C11 names.
Outcome(s) ==
  [result |-> Result(s), visited |-> s.visited, path |-> s.path,
   steps |-> s.steps, solution_found |-> s.solution_found]

\* What the call that ended the run reported: the End was yielded as True, or
\* the generator returned False.
TerminalReport(s) ==
  IF s.solution_found THEN <<"yield", "True">> ELSE <<"StopIteration", "False">>

\* A next() made on solver s after its end, taking it to t: the fields C11 names
\* are as they were, and the call reports again what the ending call reported.
StickyCall(s, t) ==
  (Terminal(s) /\ t.after = s.after + 1) =>
    /\ Outcome(t) = Outcome(s)
    /\ Report(s, t) = TerminalReport(s)

StickyCalls ==
  /\ StickyCall(bfs, bfs')
  /\ StickyCall(dfs, dfs')
  /\ StickyCall(astar, astar')

\* C11: once a solver is Found or Exhausted, every further next() on its
\* generator reports the same terminal result and leaves the visited set, the
\* path, the step counter and the found flag as they were.
C11_TerminalSticky == [][StickyCalls]_vars

\* The part of C11 that holds of every further next(): the fields are untouched
\* and with them what the caller reads off the solver object.
FieldsKept ==
  /\ Terminal(bfs) => Outcome(bfs') = Outcome(bfs)
  /\ Terminal(dfs) => Outcome(dfs') = Outcome(dfs)
  /\ Terminal(astar) => Outcome(astar') = Outcome(astar)

TerminalFieldsKept == [][FieldsKept]_vars

\* Calls were made after the end of a Found and of an Exhausted solver.
ResumedAfterEnd ==
  /\ pc = "resume"
  /\ \/ Result(bfs) = "Found" /\ bfs.after = MaxAfter /\ Len(bfs.path) >= 3
     \/ Result(dfs) = "Exhausted" /\ dfs.after = MaxAfter /\ dfs.steps >= 2

\* ------------------------------------------------------------------ C12
\* The solver has popped at most as many cells as the grid has non-Wall cells.
WithinBudget(s) == Len(s.popped) <= Cardinality(NonWall(grid))

\* C12: on every finite grid with a Start and an End, each solver reaches Found
\* or Exhausted after finitely many next() calls when run() keeps stepping
\* it: the pops made never exceed the number of non-Wall cells, and each solver
\* eventually is terminal.
C12_Terminates ==
  /\ [](WithinBudget(bfs) /\ WithinBudget(dfs) /\ WithinBudget(astar))
  /\ <>Terminal(bfs)
  /\ <>Terminal(dfs)
  /\ <>Terminal(astar)

\* All three solvers have ended on the open room after several expansions each,
\* one of them on its last possible pop.
C12_Witness ==
  /\ pc \in StepPositions
  /\ Terminal(bfs) /\ Terminal(dfs) /\ Terminal(astar)
  /\ bfs.steps >= 5 /\ dfs.steps >= 3 /\ astar.steps >= 3
  /\ Len(bfs.popped) = Cardinality(NonWall(grid))

\* ------------------------------------------------------------------ C13
\* The states a solver goes through when it alone is stepped, from s on, until
\* it has found its path or its generator has ended (or a call changes nothing).
RECURSIVE SoloBFS(_)
SoloBFS(s) ==
  LET n == BFSNext(grid, width, height, s)
  IN IF ~Live(s) \/ n = s THEN {s} ELSE {s} \cup SoloBFS(n)

RECURSIVE SoloDFS(_)
SoloDFS(s) ==
  LET n == DFSNext(grid, width, height, s)
  IN IF ~Live(s) \/ n = s THEN {s} ELSE {s} \cup SoloDFS(n)

RECURSIVE SoloAStar(_)
SoloAStar(s) ==
  LET n == AStarNext(grid, width, height, s)
  IN IF ~Live(s) \/ n = s THEN {s} ELSE {s} \cup SoloAStar(n)

\* The solver record without the count of passes made over it after its end.
Core(s) == [s EXCEPT !.after = 0]

\* Every state of every solver is a state of that solver run alone on the maze.
AsIfAlone ==
  pc \in StepPositions =>
    /\ Core(bfs) \in SoloBFS(WithMaze(NewSolver(grid, width, height, "fresh"), bfs.maze))
    /\ Core(dfs) \in SoloDFS(WithMaze(NewSolver(grid, width, height, "fresh"), dfs.maze))
    /\ Core(astar) \in SoloAStar(WithMaze(NewAStar(grid, width, height, "fresh"), astar.maze))

\* C13: in the interleaving of next() calls update() makes on the three solvers
\* of one maze, a step changes one solver only (the others keep their parent links, visited
\* sets, frontiers and counters), and so each solver goes through the states,
\* and ends with the result, of a run in which it alone is stepped.
C13_Independent ==
  /\ [][/\ bfs' /= bfs => (dfs' = dfs /\ astar' = astar)
        /\ dfs' /= dfs => (bfs' = bfs /\ astar' = astar)
        /\ astar' /= astar => (bfs' = bfs /\ dfs' = dfs)]_vars
  /\ []AsIfAlone

\* The three runs are at different points: DFS has found the End and is passed
\* over, BFS and A* are in the middle of their searches and have visited
\* different cells.
C13_Witness ==
  /\ pc \in StepPositions
  /\ Result(dfs) = "Found" /\ dfs.after >= 1
  /\ Result(bfs) = "Running" /\ Result(astar) = "Running"
  /\ bfs.visited /= astar.visited

\* ------------------------------------------------------------------ C14
\* A solver object as C14 describes it after a successful construction.
FreshlyBuilt(s) == s.steps = 0 /\ s.path = << >> /\ ~s.solution_found

\* What C14 says of a step taken while no solver has been constructed yet.
ConstructionOutcome ==
  pc \in {"loaded", "generated"} =>
    IF Count(grid, START) = 0 \/ Count(grid, END) = 0
    THEN pc' = "ctor_error" /\ bfs' = NoSolver /\ dfs' = NoSolver /\ astar' = NoSolver
    ELSE /\ pc' = "viewer"
         /\ FreshlyBuilt(bfs') /\ FreshlyBuilt(dfs') /\ FreshlyBuilt(astar')

\* C14: constructing the solvers fails exactly when the grid has no Start or no
\* End tile, and then no solver exists; on every grid with at least one of each
\* it succeeds, with step counter 0, no path and the found flag false.
C14_ConstructionFailsIffMissing == [][ConstructionOutcome]_vars

\* Solvers have just been constructed on a grid with two Start and two End tiles.
C14_Witness ==
  /\ pc = "viewer"
  /\ bfs.gen = "none" /\ FreshlyBuilt(bfs) /\ FreshlyBuilt(astar)
  /\ Count(grid, START) = 2 /\ Count(grid, END) = 2

\* Construction has failed on a grid that has a Start but no End.
C14_WitnessRaise ==
  /\ pc = "ctor_error"
  /\ Count(grid, START) = 1 /\ Count(grid, END) = 0

\* ------------------------------------------------------------------ C15
\* What C15 says of the first step of a call of generate_maze.
GenerateOutcome ==
  pc = "gen_call" =>
    IF width < 3 \/ height < 3 THEN pc' = "gen_error" /\ grid' = grid
    ELSE pc' /= "gen_error"

\* The call goes on to its return: random.choice(empty_cells) at line 48 has a
\* cell to draw, an error is raised on small dimensions only, and what is
\* returned has `height` rows of `width` columns.
GenerateCompletes ==
  /\ (pc = "carve" /\ walls = << >>) => EmptyCells(grid, width, height) /= << >>
  /\ pc = "gen_error" => (width < 3 \/ height < 3)
  /\ pc = "generated" =>
       /\ width >= 3 /\ height >= 3
       /\ DOMAIN grid = (0 .. width - 1) \X (0 .. height - 1)

\* C15: generate_maze fails with an error, returning no grid, whenever width < 3
\* or height < 3; for every width >= 3 and height >= 3 it returns, without
\* raising, a grid of exactly `height` rows by `width` columns.
C15_GenerateDimensions == [][GenerateOutcome]_vars /\ []GenerateCompletes

\* A grid of 8 rows by 3 columns has been returned.
C15_Witness ==
  /\ pc = "generated"
  /\ width = 3 /\ height = 8
  /\ Cardinality(DOMAIN grid) = 24

\* The call failed on a height below 3 although the width was accepted.
C15_WitnessRaise ==
  /\ pc = "gen_error"
  /\ width >= 3 /\ height = 2

\* ------------------------------------------------------------------ C16
\* C16: running the generator twice with the same width, height and seed gives
\* identical grids. generate_maze takes no seed and the module seeds nothing, so
\* the inputs of a run are its width and height: the grid returned by the second
\* run equals the grid returned by the first.
C16_SameInputsSameGrid ==
  (pc = "generated" /\ prev_grid /= NoGrid) => grid = prev_grid

\* A second run has returned.
C16_SecondRunReturned ==
  pc = "generated" /\ prev_grid /= NoGrid /\ width = 5

\* ------------------------------------------------------------------ C17
PathCells(g) == {p \in DOMAIN g : g[p] = PATH}

\* Unordered pairs of orthogonally adjacent Path cells.
PathEdges(g) ==
  {e \in SUBSET PathCells(g) : Cardinality(e) = 2 /\ \A p, q \in e : p = q \/ Adjacent(p, q)}

\* The Path cells are connected and have one edge fewer than cells: a tree.
PathTree(g) ==
  /\ PathCells(g) /= {}
  /\ \A p \in PathCells(g) : PathCells(g) \subseteq ReachFrom(g, {p}, FALSE)
  /\ Cardinality(PathEdges(g)) = Cardinality(PathCells(g)) - 1

BorderCells(w, h) == {p \in Positions(w, h) : ~Interior(p, w, h)}

\* During the carving loop and at its end.
CarvingInvariant ==
  pc = "carve" =>
    /\ PathTree(grid)
    /\ \A p \in BorderCells(width, height) : grid[p] = WALL

\* An iteration that changes the grid turns one Wall into Path, and that cell
\* had exactly one Path neighbour.
CarvesLeaf ==
  (pc = "carve" /\ pc' = "carve" /\ grid' /= grid) =>
    \E p \in DOMAIN grid :
      /\ grid[p] = WALL
      /\ grid' = [grid EXCEPT ![p] = PATH]
      /\ Cardinality({q \in PathCells(grid) : Adjacent(p, q)}) = 1

\* C17: at every point of the carving loop, and at its end, the Path cells form
\* a connected region without a cycle (a tree under orthogonal adjacency),
\* because a cell is carved only when exactly one of its four neighbours is
\* already Path; no cell of the outer border is ever carved.
C17_CarvedTree == []CarvingInvariant /\ [][CarvesLeaf]_vars

\* The loop has ended on a branching tree next to which a wall with two Path
\* neighbours was left standing.
C17_Witness ==
  /\ pc = "carve" /\ walls = << >>
  /\ \E p \in PathCells(grid) : Cardinality({q \in PathCells(grid) : Adjacent(p, q)}) >= 3
  /\ \E p \in DOMAIN grid :
       /\ Interior(p, width, height) /\ grid[p] = WALL
       /\ Cardinality({q \in PathCells(grid) : Adjacent(p, q)}) >= 2

\* ------------------------------------------------------------------ C18
\* C18: in every strategy one next() on solve() pops the frontier at most once,
\* also when the popped cell is a Teleport passed through.
C18_OnePopPerStep ==
  pc = "viewer" => (bfs.pops <= 1 /\ dfs.pops <= 1 /\ astar.pops <= 1)

\* The part of C18 that the A* solver meets: its teleport branch yields.
AStarOnePopPerStep == pc = "viewer" => astar.pops <= 1

\* ------------------------------------------------------------------ C19
\* A popped cell that is passed through: a Teleport with a partner in the grid.
PassedThrough(g, c) == g[c] = TELEPORT /\ \E q \in DOMAIN g : q /= c /\ g[q] = TELEPORT

\* The pops of the solver that expanded the cell's neighbours: the popped cell
\* was neither the End nor a Teleport passed through.
Expansions(g, s) ==
  Cardinality({i \in 1 .. Len(s.popped) :
                 s.popped[i] /= s.end /\ ~PassedThrough(g, s.popped[i])})

\* C19: the step counter grows by exactly one for each popped cell whose
\* neighbours are expanded and is left alone by a Teleport pass-through, by the
\* pop that finds the End and by finding the frontier empty: after every call
\* steps equals the number of non-teleport expansions made so far.
C19_StepsCountExpansions ==
  pc = "viewer" =>
    /\ bfs.steps = Expansions(grid, bfs)
    /\ dfs.steps = Expansions(grid, dfs)
    /\ astar.steps = Expansions(grid, astar)

\* BFS found the End after passing through a Teleport: more pops than steps by
\* the pass-through and by the pop of the End.
C19_Witness ==
  /\ pc = "viewer"
  /\ bfs.solution_found /\ bfs.tpass /= {} /\ bfs.steps >= 2
  /\ Len(bfs.popped) >= bfs.steps + 2
  /\ astar.solution_found /\ astar.tpass /= {}
  /\ Exhausted(dfs) \/ dfs.solution_found

\* ------------------------------------------------------------------ C20
\* The cells in A*'s frontier.
OpenCells(s) == {e[3] : e \in s.open_set}

\* What C20 says of a call in which A* expands a cell c: every neighbour of c
\* that was in the frontier with a g larger than g(c) + 1 is in the frontier
\* again with g(c) + 1 and has c for predecessor.
Relaxes ==
  (pc = "viewer" /\ Live(astar) /\ astar'.steps = astar.steps + 1) =>
    LET c == astar'.current_cell
    IN \A n \in OpenCells(astar) \cap Range(GetNeighbors(grid, width, height, c)) :
         astar.g_score[c] + 1 < astar.g_score[n] =>
           /\ astar'.g_score[n] = astar.g_score[c] + 1
           /\ astar'.parent[n] = c
           /\ \E e \in astar'.open_set \ astar.open_set : e[3] = n

\* C20: in A*, when an expanded cell offers a neighbour that is already in the
\* frontier a strictly smaller g than the one it was pushed with, the neighbour
\* is inserted again with the smaller g and its predecessor is updated.
C20_ReinsertOnSmallerG == [][Relaxes]_vars

\* ------------------------------------------------------------------ C21
\* The cells met following parent links from `cell`, Start side first.
ChainOf(s, cell) == PathTo(s.parent, cell, Cardinality(DOMAIN s.parent) + 1)

\* No chain of parent links comes back to a cell it left.
NoParentCycle(s) ==
  \A v \in DOMAIN s.parent : Len(ChainOf(s, v)) <= Cardinality(DOMAIN s.parent)

\* The parent links are a tree over the visited cells with Start for root.
RootedAtStart(s) ==
  /\ s.parent[s.start] = NoCell
  /\ NoParentCycle(s)
  /\ \A v \in s.visited : ChainOf(s, v)[1] = s.start

\* C21: in every state of every solver the predecessor links have no cycle and
\* form a tree over the visited cells rooted at Start: Start has no predecessor
\* and the links followed from any visited cell end at Start.
C21_ParentTree ==
  pc = "viewer" => (RootedAtStart(bfs) /\ RootedAtStart(dfs) /\ RootedAtStart(astar))

\* The part of C21 every solver meets: Start has no predecessor, no cycle.
ParentForest ==
  pc = "viewer" =>
    \A s \in {bfs, dfs, astar} : s.parent[s.start] = NoCell /\ NoParentCycle(s)

\* C21 for the visited cells a solver reached through a frontier insertion.
ParentTreeOverInserted ==
  pc = "viewer" =>
    \A s \in {bfs, dfs, astar} :
      \A v \in s.visited :
        (v = s.start \/ s.parent[v] /= NoCell) => ChainOf(s, v)[1] = s.start

\* ------------------------------------------------------------------ C22
\* The plain Path cells that remained after Start, End and Teleport placement:
\* those still plain and those marked Penalty since.
Remaining(g) == Count(g, PATH) + Count(g, PENALTY)

\* A step of the penalty loop that changes the grid marks one cell, and that
\* cell was plain Path.
PenaltyOnPlain ==
  (pc = "penalties" /\ grid' /= grid) =>
    \E p \in DOMAIN grid : grid[p] = PATH /\ grid' = [grid EXCEPT ![p] = PENALTY]

\* The grid returned holds exactly max(1, r // 20) Penalty cells.
ExactPenaltyCount ==
  pc = "generated" =>
    Count(grid, PENALTY) = Max2(1, Remaining(grid) \div 20)

\* C22: after Start, End and Teleport placement the generator marks exactly
\* max(1, r // 20) distinct cells as Penalty, r being the number of plain Path
\* cells then remaining, and every Penalty tile goes on a cell that was plain
\* Path.
C22_PenaltyCount == []ExactPenaltyCount /\ [][PenaltyOnPlain]_vars

\* The grid returned holds max(1, r // 20) Penalty cells, or r when fewer remain.
CappedPenaltyCount ==
  pc = "generated" =>
    Count(grid, PENALTY) =
      IF Remaining(grid) < Max2(1, Remaining(grid) \div 20)
      THEN Remaining(grid)
      ELSE Max2(1, Remaining(grid) \div 20)

\* C22 with the count capped by what remains: the generator marks
\* min(r, max(1, r // 20)) distinct cells as Penalty (none when r = 0), each on a
\* cell that was plain Path.
C22_PenaltyCountCapped == []CappedPenaltyCount /\ [][PenaltyOnPlain]_vars

\* A grid with 40 remaining cells has been returned with two Penalty cells.
C22_Witness ==
  /\ pc = "generated"
  /\ Remaining(grid) = 40
  /\ Count(grid, PENALTY) = 2

\* A grid with 39 remaining cells has been returned with one Penalty cell.
C22_Witness39 ==
  /\ pc = "generated"
  /\ Remaining(grid) = 39
  /\ Count(grid, PENALTY) = 1

\* ------------------------------------------------------------------ C23
\* The four cells around c, x the column and y the row, origin top-left.
Up(c) == <<c[1], c[2] - 1>>
Down(c) == <<c[1], c[2] + 1>>
Left(c) == <<c[1] - 1, c[2]>>
Right(c) == <<c[1] + 1, c[2]>>

\* The cells the depth-first solver inserted into its stack during a call, in
\* stack order: those of the new stack that were not visited before the call.
Inserted(old, new) ==
  FilterSeq(new.frontier, (new.visited \ old.visited) \ {new.start})

\* A call in which the depth-first solver expands a cell inserts that cell's
\* neighbours in the order of `around`.
InsertsInOrder(around) ==
  (pc = "viewer" /\ Live(dfs) /\ dfs'.steps = dfs.steps + 1) =>
    Inserted(dfs, dfs') = FilterSeq(around, Range(Inserted(dfs, dfs')))

\* C23: a cell's non-Wall neighbours are produced in the fixed order up, down,
\* left, right (x the column, y the row, origin top-left), so the depth-first
\* solver inserts them in that order.
C23_UpDownLeftRight ==
  [][InsertsInOrder(<<Up(dfs'.current_cell), Down(dfs'.current_cell),
                      Left(dfs'.current_cell), Right(dfs'.current_cell)>>)]_vars

\* The order the solvers do use: left, right, up, down.
InsertsLeftRightUpDown ==
  [][InsertsInOrder(<<Left(dfs'.current_cell), Right(dfs'.current_cell),
                      Up(dfs'.current_cell), Down(dfs'.current_cell)>>)]_vars

\* ------------------------------------------------------------------ C24
\* No element occurs twice in the sequence.
Distinct(seq) == Cardinality(Range(seq)) = Len(seq)

\* The cells a list solver has inserted so far: those popped, then those waiting.
InsertedList(s) == s.popped \o s.frontier

\* A list solver (queue or stack): every waiting cell is visited, no cell was
\* inserted twice, and the pops stay within the number of non-Wall cells.
ListFrontierOnce(s) ==
  /\ Range(s.frontier) \subseteq s.visited
  /\ Distinct(InsertedList(s))
  /\ WithinBudget(s)

\* The same for the heap of A*: no two heap entries hold the same cell and no
\* waiting cell was popped before.
HeapFrontierOnce(s) ==
  /\ OpenCells(s) \subseteq s.visited
  /\ Distinct(s.popped)
  /\ Cardinality(OpenCells(s)) = Cardinality(s.open_set)
  /\ OpenCells(s) \cap Range(s.popped) = {}
  /\ WithinBudget(s)

\* C24: in every state of every strategy each cell held in the frontier is in
\* the visited set and no cell has been inserted into the frontier more than
\* once, so the number of pops is at most the number of non-Wall cells.
C24_FrontierVisitedOnce ==
  (pc = "viewer" /\ bfs.gen /= "none") =>
    /\ ListFrontierOnce(bfs)
    /\ ListFrontierOnce(dfs)
    /\ HeapFrontierOnce(astar)

\* Every strategy holds two waiting cells after two pops, and A* has met a
\* neighbour that was already visited.
C24_Witness ==
  /\ pc = "viewer" /\ bfs.gen /= "none"
  /\ Len(bfs.frontier) >= 2 /\ Len(bfs.popped) >= 2
  /\ Len(dfs.frontier) >= 2 /\ Len(dfs.popped) >= 2
  /\ Cardinality(astar.open_set) >= 2 /\ Len(astar.popped) >= 2
  /\ \E c \in Range(astar.popped) :
       \E n \in Range(GetNeighbors(grid, width, height, c)) :
         n \in Range(astar.popped) \ {astar.start}

\* Some run pops every non-Wall cell: the bound on the pops is met.
C24_WitnessAllPopped ==
  /\ pc = "viewer" /\ bfs.solution_found
  /\ Len(bfs.popped) = Cardinality(NonWall(grid))
  /\ Len(bfs.popped) >= 4

\* ------------------------------------------------------------------ C25
\* solve() has been called on the solver and its generator has neither yielded
\* True nor ended.
NotTerminal(s) == s.gen \in {"fresh", "yield_false"} /\ ~s.solution_found

\* The solver t is the solver s further along its run, not a new one.
NotReset(s, t) ==
  /\ t.gen /= "fresh"
  /\ t.maze = s.maze
  /\ s.visited \subseteq t.visited
  /\ t.steps >= s.steps
  /\ Len(t.popped) >= Len(s.popped)

\* One pass of the loop took s to t: a solver that was not terminal made the one
\* call `stepped`, a solver that had found its path is untouched.
AdvancedByOne(s, t, stepped) ==
  /\ NotTerminal(s) => Core(t) = Core(stepped)
  /\ s.solution_found => t = s

\* What C25 says of a pass of the loop that begins with visualizing true.
ViewerPass ==
  (pc = "viewer" /\ visualizing) =>
    /\ NotReset(bfs, bfs') /\ NotReset(dfs, dfs') /\ NotReset(astar, astar')
    /\ AdvancedByOne(bfs, bfs', BFSNext(grid, width, height, bfs))
    /\ AdvancedByOne(dfs, dfs', DFSNext(grid, width, height, dfs))
    /\ AdvancedByOne(astar, astar', AStarNext(grid, width, height, astar))
    /\ ~visualizing' => /\ (bfs'.solution_found \/ Exhausted(bfs'))
                         /\ (dfs'.solution_found \/ Exhausted(dfs'))
                         /\ (astar'.solution_found \/ Exhausted(astar'))

\* C25: while visualizing is true a Start click never replaces or resets the
\* three solvers, each update() advances every solver that is not yet terminal
\* by one step and never steps a solver that has found its path, and visualizing
\* returns to false only when every solver is Found or has exhausted its
\* generator.
C25_ViewerLoop == [][ViewerPass]_vars

\* Mid-run: BFS has found its path and waits, A* is still searching after two
\* expansions, and the run goes on.
C25_Witness ==
  /\ pc = "viewer" /\ visualizing
  /\ bfs.solution_found /\ bfs.gen = "yield_true"
  /\ NotTerminal(astar) /\ astar.steps >= 2

\* A run has ended with every generator exhausted and none Found.
C25_WitnessStopped ==
  /\ pc = "viewer" /\ ~visualizing
  /\ Exhausted(bfs) /\ Exhausted(dfs) /\ Exhausted(astar)
  /\ bfs.steps >= 2

====
